---- MODULE Spec2Model ----
(***************************************************************************)
(* stream-guard: StreamGuard<S, F>, a Stream wrapper that runs an FnOnce   *)
(* closure when it is dropped (src/src/lib.rs).                            *)
(*                                                                         *)
(* The guard's two fields are the variables stream and on_drop.  The inner *)
(* stream S is a script of poll outcomes; the closure F is a record saying *)
(* whether it returns or panics.  The consumer may poll, ask for the size  *)
(* hint, and release the guard at any point; release runs the drop glue in *)
(* program order: PinnedDrop::drop (take, expect, call), then the fields.  *)
(***************************************************************************)
EXTENDS Integers, Sequences, FiniteSets, TLC

\* longest script of the inner stream
MaxLen == 3
\* polls the consumer makes at most (one more than MaxLen: polls after the end)
MaxPolls == 4
\* distinct task contexts (wakers) a poll may carry
NumWakers == 2
\* times the hosting environment may run the teardown hook again (SpecHost)
MaxReentry == 1

VARIABLES
    stream,     \* StreamGuard.stream: the inner stream S
    on_drop,    \* StreamGuard.on_drop: Option<F>
    pc,         \* "live" | "hook" | "call" | "fields" | "done" | "aborted"
    taken,      \* the Option<F> that take() returned inside the hook
    panic,      \* NoPanic, or the payload of the panic in flight
    runs,       \* number of invocations of the closure
    released,   \* the inner stream has been dropped
    results,    \* what poll_next on the guard returned, in order
    hint,       \* the last size_hint the guard returned, and after how many polls
    log,        \* what the consumer and the closure printed, in order
    input,      \* the stream and closure the guard was built from
    ctor,       \* how it was built: "new" | "guard" | "raw"
    twin,       \* a guard built by StreamGuard::new from the same input, driven alike
    reentries   \* how often the environment re-entered the hook

vars == <<stream, on_drop, pc, taken, panic, runs, released, results, hint,
          log, input, ctor, twin, reentries>>

-----------------------------------------------------------------------------
\* Option<T>
None == <<"None">>
Some(x) == <<"Some", x>>
IsSome(o) == Len(o) = 2
unwrap(o) == o[2]

\* Poll<T>
Pending == <<"Pending">>
Ready(x) == <<"Ready", x>>

NoPanic == "none"
ExpectMsg == "No on_drop function in StreamGuard, was drop called twice or constructed wrongly?"
ActionPanic == "panic raised by the on_drop closure"

Wakers == 1..NumWakers

-----------------------------------------------------------------------------
\* The inner stream S: Stream.  Its behaviour is a script over
\* "P" (Pending), "I" (Ready(Some(item))), "E" (Ready(None)); the items are
\* numbered 0, 1, 2, ... in the order they are yielded; past the end of the
\* script it answers Ready(None).  exact = TRUE is an iterator-backed stream
\* whose size_hint counts the remaining items (stream::iter(0..3) is the script
\* <<"I","I","I">>, exact); exact = FALSE keeps Stream's default (0, None).
Outcomes == {"P", "I", "E"}

Scripts == UNION {[1..n -> Outcomes] : n \in 0..MaxLen}

ItemsIn(script, from, to) == Cardinality({i \in from..to : script[i] = "I"})

InnerPoll(s, cx) ==
    LET k   == s.pos + 1
        out == IF k > Len(s.script) THEN "E" ELSE s.script[k]
        res == CASE out = "P" -> Pending
                 [] out = "I" -> Ready(Some(ItemsIn(s.script, 1, s.pos)))
                 [] OTHER     -> Ready(None)
    IN  [stream |-> [s EXCEPT !.pos = k,
                              !.waker = IF out = "P" THEN cx ELSE @],
         result |-> res]

InnerSizeHint(s) ==
    IF s.exact
    THEN LET n == ItemsIn(s.script, s.pos + 1, Len(s.script)) IN <<n, Some(n)>>
    ELSE <<0, None>>

\* The closure F: FnOnce().  Calling it prints, then returns or panics.
Closures == [id : {1}, panics : BOOLEAN]

-----------------------------------------------------------------------------
\* StreamGuard::new
New(s, f) == [stream |-> s, on_drop |-> Some(f)]

\* Bug: the extension method fills the fields itself and leaves the slot empty.
guard_unarmed(s, f) == [stream |-> s, on_drop |-> None]

\* GuardStreamExt::guard
guard(s, f) == New(s, f)

\* Bug: a Pending inner stream is polled again at once and that answer returned.
poll_next_retry(self, cx) ==
    LET r  == InnerPoll(self.stream, cx)
        r2 == IF r.result = Pending THEN InnerPoll(r.stream, cx) ELSE r
    IN  [self |-> [self EXCEPT !.stream = r2.stream], result |-> r2.result]

\* Bug: the end of the inner stream disarms the guard (the closure is taken
\* out of the slot when Ready(None) is seen).
poll_next_disarm(self, cx) ==
    LET r == InnerPoll(self.stream, cx)
    IN  [self |-> [self EXCEPT !.stream = r.stream,
                               !.on_drop = IF r.result = Ready(None) THEN None ELSE @],
         result |-> r.result]

\* <StreamGuard as Stream>::poll_next
poll_next(self, cx) ==
    LET r == InnerPoll(self.stream, cx)
    IN  [self |-> [self EXCEPT !.stream = r.stream], result |-> r.result]

\* Bug: size_hint is not overridden, so Stream's default (0, None) answers.
size_hint_default(self) == <<0, None>>

\* <StreamGuard as Stream>::size_hint
size_hint(self) == InnerSizeHint(self.stream)

\* Option::take on the on_drop slot
take(slot) == [slot |-> None, value |-> slot]

self == [stream |-> stream, on_drop |-> on_drop]

-----------------------------------------------------------------------------
TwinInit(s, f) ==
    [self |-> New(s, f), taken |-> None, runs |-> 0, results |-> <<>>, hint |-> None]

InitWith(s, f, c, g) ==
    /\ stream = g.stream
    /\ on_drop = g.on_drop
    /\ pc = "live"
    /\ taken = None
    /\ panic = NoPanic
    /\ runs = 0
    /\ released = FALSE
    /\ results = <<>>
    /\ hint = None
    /\ log = <<>>
    /\ input = [stream |-> s, f |-> f]
    /\ ctor = c
    /\ twin = TwinInit(s, f)
    /\ reentries = 0

Fresh(script, exact) == [script |-> script, pos |-> 0, exact |-> exact, waker |-> 0]

\* The guard right after StreamGuard::new(stream, f) or stream.guard(f).
Init ==
    \E script \in Scripts, exact \in BOOLEAN, f \in Closures, c \in {"new", "guard"} :
        LET s == Fresh(script, exact)
        IN  InitWith(s, f, c, IF c = "new" THEN New(s, f) ELSE guard(s, f))

\* A guard put together inside the crate with an empty slot ("constructed wrongly").
InitRaw ==
    \E script \in Scripts, exact \in BOOLEAN, f \in Closures :
        LET s == Fresh(script, exact)
        IN  InitWith(s, f, "raw", [stream |-> s, on_drop |-> None])

-----------------------------------------------------------------------------
\* Bug: the closure is run as soon as the inner stream reports its end.
PollNext_fire ==
    \E cx \in Wakers :
        /\ pc = "live"
        /\ Len(results) < MaxPolls
        /\ LET r == poll_next(self, cx)
               t == poll_next(twin.self, cx)
               fire == r.result = Ready(None) /\ IsSome(on_drop)
               shown == IF r.result # Pending /\ IsSome(r.result[2])
                        THEN Append(log, <<"item", unwrap(r.result[2])>>)
                        ELSE log
           IN  /\ stream' = r.self.stream
               /\ on_drop' = IF fire THEN None ELSE r.self.on_drop
               /\ runs' = IF fire THEN runs + 1 ELSE runs
               /\ results' = Append(results, r.result)
               /\ log' = IF fire THEN Append(shown, <<"dropped", unwrap(on_drop).id>>)
                         ELSE shown
               /\ twin' = [twin EXCEPT !.self = t.self,
                                       !.results = Append(@, t.result)]
        /\ UNCHANGED <<pc, taken, panic, released, hint, input, ctor, reentries>>

\* The consumer polls the guard and prints the item it gets, if any.
PollNext ==
    \E cx \in Wakers :
        /\ pc = "live"
        /\ Len(results) < MaxPolls
        /\ LET r == poll_next(self, cx)
               t == poll_next(twin.self, cx)
           IN  /\ stream' = r.self.stream
               /\ on_drop' = r.self.on_drop
               /\ results' = Append(results, r.result)
               /\ log' = IF r.result # Pending /\ IsSome(r.result[2])
                         THEN Append(log, <<"item", unwrap(r.result[2])>>)
                         ELSE log
               /\ twin' = [twin EXCEPT !.self = t.self,
                                       !.results = Append(@, t.result)]
        /\ UNCHANGED <<pc, taken, panic, runs, released, hint, input, ctor, reentries>>

\* The consumer asks the guard for its size hint (&self: nothing is written).
SizeHint ==
    /\ pc = "live"
    /\ hint' = Some([polls |-> Len(results), value |-> size_hint(self)])
    /\ twin' = [twin EXCEPT !.hint = Some([polls |-> Len(twin.results),
                                           value |-> size_hint(twin.self)])]
    /\ UNCHANGED <<stream, on_drop, pc, taken, panic, runs, released, results,
                   log, input, ctor, reentries>>

\* Bug: the inner stream is dropped by hand before the hook runs.
Release_streamFirst ==
    /\ pc = "live"
    /\ pc' = "hook"
    /\ released' = TRUE
    /\ UNCHANGED <<stream, on_drop, taken, panic, runs, results, hint,
                   log, input, ctor, twin, reentries>>

\* The consumer releases the guard: Drop::drop enters PinnedDrop::drop.
Release ==
    /\ pc = "live"
    /\ pc' = "hook"
    /\ UNCHANGED <<stream, on_drop, taken, panic, runs, released, results, hint,
                   log, input, ctor, twin, reentries>>

\* Where a panic goes: it unwinds through the drop glue, or the process aborts
\* (panic = "abort" builds, or a panic while already unwinding).
PanicTargets == {"fields", "aborted"}

\* Bug: `if let Some(f) = on_drop.take() { f() }`: an empty slot is skipped.
Take_silent ==
    /\ pc = "hook"
    /\ LET t  == take(on_drop)
           tt == take(twin.self.on_drop)
       IN  /\ on_drop' = t.slot
           /\ taken' = t.value
           /\ twin' = [twin EXCEPT !.self.on_drop = tt.slot, !.taken = tt.value]
           /\ pc' = IF IsSome(t.value) THEN "call" ELSE "fields"
    /\ UNCHANGED <<stream, panic, runs, released, results, hint, log, input, ctor,
                   reentries>>

\* self.project().on_drop.take().expect("...")
Take ==
    /\ pc = "hook"
    /\ LET t  == take(on_drop)
           tt == take(twin.self.on_drop)
       IN  /\ on_drop' = t.slot
           /\ taken' = t.value
           /\ twin' = [twin EXCEPT !.self.on_drop = tt.slot, !.taken = tt.value]
           /\ IF IsSome(t.value)
              THEN pc' = "call" /\ panic' = panic
              ELSE pc' \in PanicTargets /\ panic' = ExpectMsg
    /\ UNCHANGED <<stream, runs, released, results, hint, log, input, ctor, reentries>>

\* Bug: the trailing `()` is missing: the closure is extracted and dropped uncalled.
CallAction_forgotten ==
    /\ pc = "call"
    /\ pc' = "fields"
    /\ UNCHANGED <<stream, on_drop, taken, panic, runs, released, results, hint,
                   log, input, ctor, twin, reentries>>

\* Bug: the call is wrapped in catch_unwind and the closure's panic swallowed.
CallAction_catch ==
    /\ pc = "call"
    /\ LET f == unwrap(taken)
       IN  /\ runs' = runs + 1
           /\ log' = Append(log, <<"dropped", f.id>>)
    /\ pc' = "fields"
    /\ twin' = [twin EXCEPT !.runs = IF IsSome(twin.taken) THEN @ + 1 ELSE @]
    /\ UNCHANGED <<stream, on_drop, taken, panic, released, results, hint, input,
                   ctor, reentries>>

\* ...(): the extracted closure is called.
CallAction ==
    /\ pc = "call"
    /\ LET f == unwrap(taken)
       IN  /\ runs' = runs + 1
           /\ log' = Append(log, <<"dropped", f.id>>)
           /\ IF f.panics
              THEN pc' \in PanicTargets /\ panic' = ActionPanic
              ELSE pc' = "fields" /\ panic' = panic
    /\ twin' = [twin EXCEPT !.runs = IF IsSome(twin.taken) THEN @ + 1 ELSE @]
    /\ UNCHANGED <<stream, on_drop, taken, released, results, hint, input, ctor,
                   reentries>>

\* Bug: teardown polls the inner stream once more before letting go of it.
DropFields_drain ==
    /\ pc = "fields"
    /\ stream' = InnerPoll(stream, 1).stream
    /\ released' = TRUE
    /\ pc' = "done"
    /\ UNCHANGED <<on_drop, taken, panic, runs, results, hint, log,
                   input, ctor, twin, reentries>>

\* The drop glue after the hook (also while unwinding): stream, then on_drop.
DropFields ==
    /\ pc = "fields"
    /\ released' = TRUE
    /\ pc' = "done"
    /\ UNCHANGED <<stream, on_drop, taken, panic, runs, results, hint, log,
                   input, ctor, twin, reentries>>

\* A faulty hosting environment drops the guard a second time.  That is
\* undefined behaviour: the slot's memory may read as empty or as still holding
\* the closure.
ReenterDrop ==
    /\ pc = "done"
    /\ reentries < MaxReentry
    /\ reentries' = reentries + 1
    /\ pc' = "hook"
    /\ \E slot \in {None, Some(input.f)} :
        /\ on_drop' = slot
        /\ twin' = [twin EXCEPT !.self.on_drop = slot, !.taken = None]
    /\ taken' = None
    /\ panic' = NoPanic
    /\ UNCHANGED <<stream, runs, released, results, hint, log, input, ctor>>

Next ==
    \/ PollNext
    \/ SizeHint
    \/ Release
    \/ Take
    \/ CallAction
    \/ DropFields

\* The public contract: guards built by new/guard, dropped once.
Spec == Init /\ [][Next]_vars

InitHost == Init \/ InitRaw

NextHost == Next \/ ReenterDrop

\* A hosting environment that may also construct wrongly or drop twice.
SpecHost == InitHost /\ [][NextHost]_vars

-----------------------------------------------------------------------------
\* The inner stream polled directly n times: where it stands and what it answered.
RECURSIVE DirectPolls(_, _)
DirectPolls(s, n) ==
    IF n = 0
    THEN [stream |-> s, results |-> <<>>]
    ELSE LET p == DirectPolls(s, n - 1)
             r == InnerPoll(p.stream, 1)
         IN  [stream |-> r.stream, results |-> Append(p.results, r.result)]

Min(a, b) == IF a < b THEN a ELSE b

Entries(kind) == {i \in 1..Len(log) : log[i][1] = kind}

Iter3 == Fresh(<<"I", "I", "I">>, TRUE)

TornDown == {"done", "aborted"}

\* C1: once release of a guard built by new/guard has completed, after any
\* polls and size hints, the closure has been invoked exactly once; it is
\* never invoked more than once.
ExactlyOnce ==
    /\ runs <= 1
    /\ Cardinality(Entries("dropped")) = runs
    /\ pc \in TornDown => runs = 1

ExactlyOnceWitness ==
    /\ pc = "done"
    /\ ctor = "new"
    /\ runs = 1
    /\ Len(results) >= 2
    /\ hint # None

\* C2: the k-th poll of the guard returns what the inner stream returns for
\* its k-th poll, and the guard has polled the inner stream exactly as often
\* as it was polled itself, also after Ready(None).
Transparency ==
    LET d == DirectPolls(input.stream, Len(results))
    IN  /\ results = d.results
        /\ stream.pos = Len(results)
        /\ stream.script = input.stream.script
        /\ stream.exact = input.stream.exact

TransparencyWitness ==
    /\ input.stream.script = <<"P", "I", "E">>
    /\ results = <<Pending, Ready(Some(0)), Ready(None), Ready(None)>>

\* C3: before the closure is called in teardown it has run zero times:
\* not at construction, not when poll_next returns Ready(None); a stream of
\* 0,1,2 polled to its end and then released prints 0, 1, 2, dropped.
LateCleanup ==
    /\ pc \in {"live", "hook", "call"} => runs = 0 /\ Entries("dropped") = {}
    /\ (/\ input.stream = Iter3
        /\ results = <<Ready(Some(0)), Ready(Some(1)), Ready(Some(2)), Ready(None)>>
        /\ pc = "done")
       => log = <<<<"item", 0>>, <<"item", 1>>, <<"item", 2>>, <<"dropped", 1>>>>

LateCleanupWitness ==
    /\ input.stream = Iter3
    /\ results = <<Ready(Some(0)), Ready(Some(1)), Ready(Some(2)), Ready(None)>>
    /\ pc = "done"
    /\ log = <<<<"item", 0>>, <<"item", 1>>, <<"item", 2>>, <<"dropped", 1>>>>

\* C4: whenever the inner stream has been released, the closure has been
\* invoked and its call is over.
TeardownOrder ==
    released => runs = 1 /\ pc \notin {"live", "hook", "call"}

TeardownOrderWitness ==
    /\ released
    /\ runs = 1
    /\ panic = NoPanic
    /\ Len(results) >= 1

\* C5: teardown polls nothing: from release on, the inner stream has been
\* polled exactly as often as the consumer polled, only the items of that
\* prefix were observed, and the closure has run once when release completes.
EarlyRelease ==
    pc # "live" =>
        /\ stream.pos = Len(results)
        /\ Cardinality(Entries("item")) =
               ItemsIn(input.stream.script, 1,
                       Min(Len(results), Len(input.stream.script)))
        /\ pc \in TornDown => runs = 1

EarlyReleaseWitness ==
    /\ pc = "done"
    /\ input.stream = Iter3
    /\ results = <<Ready(Some(0))>>
    /\ stream.pos = 1
    /\ log = <<<<"item", 0>>, <<"dropped", 1>>>>

\* C6: a size hint taken from the guard after k polls is the inner stream's
\* size hint after k polls, and taking it changes neither field of the guard.
SizePassthrough ==
    /\ [](hint # None =>
            unwrap(hint).value =
                InnerSizeHint(DirectPolls(input.stream, unwrap(hint).polls).stream))
    /\ [][hint' # hint => stream' = stream /\ on_drop' = on_drop]_vars

SizePassthroughWitness ==
    /\ input.stream = Iter3
    /\ Len(results) = 3
    /\ hint = Some([polls |-> 1, value |-> <<2, Some(2)>>])

\* C7: a guard built by stream.guard(f) is, in every state, in the state of a
\* guard built by StreamGuard::new(stream, f) and driven by the same calls:
\* same fields, same poll results, same size hints, same runs of the closure.
GuardEqualsNew ==
    ctor = "guard" =>
        twin = [self |-> self, taken |-> taken, runs |-> runs,
                results |-> results, hint |-> hint]

GuardEqualsNewWitness ==
    /\ ctor = "guard"
    /\ pc = "done"
    /\ runs = 1
    /\ twin.runs = 1
    /\ Len(results) >= 2
    /\ hint # None

\* C8: until the hook extracts it the slot holds the closure the guard was
\* built with; only the hook's take changes the slot, and it empties it, so
\* an empty slot stays empty and the hook is never entered with one.
CleanupSlot ==
    /\ [](pc \in {"live", "hook"} => on_drop = Some(input.f))
    /\ [][on_drop' # on_drop => pc = "hook" /\ on_drop' = None]_vars

CleanupSlotWitness ==
    /\ pc = "hook"
    /\ on_drop = Some(input.f)
    /\ Len(results) >= 2
    /\ results[Len(results)] = Ready(None)
    /\ hint # None

\* C9: a hook that finds the slot empty panics with the diagnostic message
\* and invokes nothing; the panic is not dropped on the way out.
DoubleTeardownPanics ==
    /\ [][pc = "hook" /\ on_drop = None =>
            /\ panic' = ExpectMsg
            /\ pc' \in PanicTargets
            /\ runs' = runs
            /\ log' = log]_vars
    /\ [][panic = ExpectMsg /\ pc' # "hook" => panic' = ExpectMsg /\ runs' = runs]_vars

DoubleTeardownWitness ==
    /\ reentries = 1
    /\ ctor = "new"
    /\ pc = "done"
    /\ panic = ExpectMsg
    /\ runs = 1

\* C10: the slot is empty when the closure starts to run, and a closure that
\* panics has run once, leaves the slot empty and its panic in flight: the
\* hook neither catches it nor runs the closure again.
ExtractThenRun ==
    /\ pc = "call" => on_drop = None /\ taken = Some(input.f)
    /\ (runs >= 1 /\ input.f.panics) =>
           /\ panic = ActionPanic
           /\ on_drop = None
           /\ runs = 1
           /\ pc \in {"fields", "done", "aborted"}

ExtractThenRunWitness ==
    /\ pc = "done"
    /\ input.f.panics
    /\ panic = ActionPanic
    /\ runs = 1
    /\ on_drop = None
    /\ released

====
